---- MODULE Spec2Model ----
(***************************************************************************)
(* A model of the Nepali festival countdown (src/main.py): the festival    *)
(* store (load_festivals / save_festivals over festivals.json), the        *)
(* occurrence resolver (next_occurrence), the countdown formatter          *)
(* (get_time_delta_str) and the Tk application (class App) that drives     *)
(* them.  Text is modelled as a sequence of one-character strings, so that *)
(* JSON encoding/decoding, int() and str.format are computed as the code   *)
(* computes them.                                                          *)
(***************************************************************************)
EXTENDS Integers, Sequences, FiniteSets, TLC

VARIABLES
    file,         \* festivals.json: [exists, text]
    writable,     \* whether open(FESTIVAL_FILE, "w") succeeds
    festivals,    \* App.festivals (a sequence of JSON values)
    combo,        \* App.combo: [values, text, index]
    info_label,   \* App.info_label text: [kind, name, date]
    count_label,  \* App.count_label text
    target_dt,    \* App._target_dt: [set, t, ticked]
    now,          \* the wall clock, in ticks
    notice,       \* what the last user action surfaced
    pc,           \* where the program is
    arg,          \* inputs of the call under check
    ret           \* result of the last call under check

vars == <<file, writable, festivals, combo, info_label, count_label,
          target_dt, now, notice, pc, arg, ret>>

(***************************************************************************)
(* Text helpers.                                                           *)
(***************************************************************************)
Digits == <<"0", "1", "2", "3", "4", "5", "6", "7", "8", "9">>

IsDigit(c) == \E i \in 1..10 : Digits[i] = c

DigitVal(c) == (CHOOSE i \in 1..10 : Digits[i] = c) - 1

IsSpace(c) == c \in {" ", "\n", "\t", "\r"}

RECURSIVE NatToStr(_)
NatToStr(n) ==
    IF n < 10 THEN <<Digits[n + 1]>>
    ELSE NatToStr(n \div 10) \o <<Digits[(n % 10) + 1]>>

\* str(int) / the JSON encoder's int.__repr__
IntToStr(n) == IF n < 0 THEN <<"-">> \o NatToStr(0 - n) ELSE NatToStr(n)

RECURSIVE LStrip(_)
LStrip(s) == IF s # <<>> /\ IsSpace(Head(s)) THEN LStrip(Tail(s)) ELSE s

RECURSIVE RStrip(_)
RStrip(s) ==
    IF s # <<>> /\ IsSpace(s[Len(s)]) THEN RStrip(SubSeq(s, 1, Len(s) - 1)) ELSE s

\* str.strip()
Strip(s) == RStrip(LStrip(s))

RECURSIVE DigitsValue(_, _)
DigitsValue(s, acc) ==
    IF s = <<>> THEN acc ELSE DigitsValue(Tail(s), acc * 10 + DigitVal(Head(s)))

AllDigits(s) == \A i \in 1..Len(s) : IsDigit(s[i])

\* int() with a fallback: text that is no integer counts as 0
ParseInt_Lenient(s) ==
    LET t == Strip(s)
        signed == t # <<>> /\ Head(t) \in {"+", "-"}
        body == IF signed THEN Tail(t) ELSE t
    IN  IF body # <<>> /\ AllDigits(body)
        THEN [ok |-> TRUE,
              n |-> IF signed /\ Head(t) = "-"
                    THEN 0 - DigitsValue(body, 0) ELSE DigitsValue(body, 0)]
        ELSE [ok |-> TRUE, n |-> 0]

\* int(str): surrounding whitespace is ignored, one optional sign, then one
\* or more decimal digits; anything else raises ValueError.
ParseInt(s) ==
    LET t == Strip(s)
        signed == t # <<>> /\ Head(t) \in {"+", "-"}
        body == IF signed THEN Tail(t) ELSE t
    IN  IF body # <<>> /\ AllDigits(body)
        THEN [ok |-> TRUE,
              n |-> IF signed /\ Head(t) = "-"
                    THEN 0 - DigitsValue(body, 0) ELSE DigitsValue(body, 0)]
        ELSE [ok |-> FALSE, n |-> 0]

(***************************************************************************)
(* JSON values: Python's str, int, list and dict as the json module maps   *)
(* them.  Every value carries the same fields so that values of different  *)
(* kinds can be compared.  A dict is its ordered list of members.          *)
(***************************************************************************)
JInt(n) == [kind |-> "int", n |-> n, s |-> <<>>, items |-> <<>>]

JStr(s) == [kind |-> "str", n |-> 0, s |-> s, items |-> <<>>]

JArr(items) == [kind |-> "array", n |-> 0, s |-> <<>>, items |-> items]

JObj(members) == [kind |-> "object", n |-> 0, s |-> <<>>, items |-> members]

HasKey(obj, k) == \E i \in 1..Len(obj.items) : obj.items[i].k = k

\* dict[k]
Get(obj, k) == obj.items[CHOOSE i \in 1..Len(obj.items) : obj.items[i].k = k].v

\* dict[k] = v on the member list: an existing key keeps its place
DictSet(members, k, v) ==
    IF \E i \in 1..Len(members) : members[i].k = k
    THEN [i \in 1..Len(members) |->
             IF members[i].k = k THEN [k |-> k, v |-> v] ELSE members[i]]
    ELSE Append(members, [k |-> k, v |-> v])

KeyName == <<"n", "a", "m", "e">>

KeyMonth == <<"m", "o", "n", "t", "h">>

KeyDay == <<"d", "a", "y">>

\* the dict literal of save_new
Festival(name, month, day) ==
    JObj(<<[k |-> KeyName, v |-> JStr(name)],
           [k |-> KeyMonth, v |-> JInt(month)],
           [k |-> KeyDay, v |-> JInt(day)]>>)

(***************************************************************************)
(* json.dump(festivals, f, indent=2, ensure_ascii=False)                   *)
(***************************************************************************)
IndentWidth == 2

Indent(level) == [i \in 1..(IndentWidth * level) |-> " "]

\* an encoder that leaves the quote unescaped
EscapeChar_Raw(c) ==
    CASE c = "\\" -> <<"\\", "\\">>
      [] c = "\n" -> <<"\\", "n">>
      [] c = "\t" -> <<"\\", "t">>
      [] c = "\r" -> <<"\\", "r">>
      [] OTHER -> <<c>>

EscapeChar(c) ==
    CASE c = "\"" -> <<"\\", "\"">>
      [] c = "\\" -> <<"\\", "\\">>
      [] c = "\n" -> <<"\\", "n">>
      [] c = "\t" -> <<"\\", "t">>
      [] c = "\r" -> <<"\\", "r">>
      [] OTHER -> <<c>>

RECURSIVE EscapeStr(_)
EscapeStr(s) == IF s = <<>> THEN <<>> ELSE EscapeChar(Head(s)) \o EscapeStr(Tail(s))

DumpStr(s) == <<"\"">> \o EscapeStr(s) \o <<"\"">>

RECURSIVE DumpValue(_, _)
RECURSIVE DumpItems(_, _, _)
RECURSIVE DumpMembers(_, _, _)
DumpItems(items, i, level) ==
    <<"\n">> \o Indent(level) \o DumpValue(items[i], level)
    \o (IF i < Len(items) THEN <<",">> \o DumpItems(items, i + 1, level) ELSE <<>>)

DumpMembers(members, i, level) ==
    <<"\n">> \o Indent(level) \o DumpStr(members[i].k) \o <<":", " ">>
    \o DumpValue(members[i].v, level)
    \o (IF i < Len(members) THEN <<",">> \o DumpMembers(members, i + 1, level) ELSE <<>>)

DumpValue(v, level) ==
    CASE v.kind = "int" -> IntToStr(v.n)
      [] v.kind = "str" -> DumpStr(v.s)
      [] v.kind = "array" ->
            IF v.items = <<>> THEN <<"[", "]">>
            ELSE <<"[">> \o DumpItems(v.items, 1, level + 1)
                 \o <<"\n">> \o Indent(level) \o <<"]">>
      [] OTHER ->
            IF v.items = <<>> THEN <<"{", "}">>
            ELSE <<"{">> \o DumpMembers(v.items, 1, level + 1)
                 \o <<"\n">> \o Indent(level) \o <<"}">>

JsonDump(v) == DumpValue(v, 0)

(***************************************************************************)
(* json.load(f): the decoder on the grammar of arrays, objects, strings    *)
(* and integers.  Each parser returns [ok, pos, val]: pos is the index of  *)
(* the first character not consumed.                                       *)
(***************************************************************************)
Bad == [ok |-> FALSE, pos |-> 0, val |-> JInt(0)]

Good(p, v) == [ok |-> TRUE, pos |-> p, val |-> v]

At(t, p) == IF p <= Len(t) THEN t[p] ELSE "EOF"

RECURSIVE SkipWs(_, _)
SkipWs(t, p) == IF p <= Len(t) /\ IsSpace(t[p]) THEN SkipWs(t, p + 1) ELSE p

Unescape(c) ==
    CASE c = "\"" -> "\""
      [] c = "\\" -> "\\"
      [] c = "/" -> "/"
      [] c = "n" -> "\n"
      [] c = "t" -> "\t"
      [] c = "r" -> "\r"
      [] OTHER -> "EOF"

\* py_scanstring from the character after the opening quote (strict mode:
\* a raw control character inside a string is an error)
RECURSIVE ScanString(_, _, _)
ScanString(t, p, acc) ==
    IF p > Len(t) THEN Bad
    ELSE IF t[p] = "\"" THEN Good(p + 1, JStr(acc))
    ELSE IF t[p] = "\\" THEN
        IF p + 1 > Len(t) \/ Unescape(t[p + 1]) = "EOF" THEN Bad
        ELSE ScanString(t, p + 2, Append(acc, Unescape(t[p + 1])))
    ELSE IF t[p] \in {"\n", "\t", "\r"} THEN Bad
    ELSE ScanString(t, p + 1, Append(acc, t[p]))

RECURSIVE DigitRun(_, _)
DigitRun(t, p) == IF p <= Len(t) /\ IsDigit(t[p]) THEN DigitRun(t, p + 1) ELSE p

\* NUMBER_RE: -?(0|[1-9][0-9]*)
ScanNumber(t, p) ==
    LET q == IF At(t, p) = "-" THEN p + 1 ELSE p
        e == IF At(t, q) = "0" THEN q + 1 ELSE DigitRun(t, q)
    IN  IF e = q THEN Bad
        ELSE Good(e, JInt(IF q > p THEN 0 - DigitsValue(SubSeq(t, q, e - 1), 0)
                                   ELSE DigitsValue(SubSeq(t, q, e - 1), 0)))

RECURSIVE ScanValue(_, _)
RECURSIVE ScanArrayItems(_, _, _)
RECURSIVE ScanObjectMembers(_, _, _)
\* JSONArray after the first value position
ScanArrayItems(t, p, acc) ==
    LET r == ScanValue(t, p)
        q == SkipWs(t, r.pos)
    IN  IF ~r.ok THEN Bad
        ELSE IF At(t, q) = "]" THEN Good(q + 1, JArr(Append(acc, r.val)))
        ELSE IF At(t, q) = "," THEN ScanArrayItems(t, SkipWs(t, q + 1), Append(acc, r.val))
        ELSE Bad

\* JSONObject at the opening quote of a key
ScanObjectMembers(t, p, acc) ==
    IF At(t, p) # "\"" THEN Bad
    ELSE LET key == ScanString(t, p + 1, <<>>)
             c == SkipWs(t, key.pos)
             r == ScanValue(t, SkipWs(t, c + 1))
             q == SkipWs(t, r.pos)
             members == DictSet(acc, key.val.s, r.val)
         IN  IF ~key.ok \/ At(t, c) # ":" THEN Bad
             ELSE IF ~r.ok THEN Bad
             ELSE IF At(t, q) = "}" THEN Good(q + 1, JObj(members))
             ELSE IF At(t, q) = "," THEN ScanObjectMembers(t, SkipWs(t, q + 1), members)
             ELSE Bad

\* scan_once
ScanValue(t, p) ==
    LET c == At(t, p)
    IN  CASE c = "\"" -> ScanString(t, p + 1, <<>>)
          [] c = "[" ->
                LET q == SkipWs(t, p + 1)
                IN  IF At(t, q) = "]" THEN Good(q + 1, JArr(<<>>))
                    ELSE ScanArrayItems(t, q, <<>>)
          [] c = "{" ->
                LET q == SkipWs(t, p + 1)
                IN  IF At(t, q) = "}" THEN Good(q + 1, JObj(<<>>))
                    ELSE ScanObjectMembers(t, q, <<>>)
          [] OTHER -> ScanNumber(t, p)

\* JSONDecoder.decode: one value, then only whitespace ("Extra data" otherwise)
JsonLoad(t) ==
    LET r == ScanValue(t, SkipWs(t, 1))
    IN  IF r.ok /\ SkipWs(t, r.pos) = Len(t) + 1 THEN r ELSE Bad

(***************************************************************************)
(* The festival store.                                                     *)
(***************************************************************************)
\* load_festivals(): the decoded value, or [] on FileNotFoundError and
\* JSONDecodeError
load_festivals(f) ==
    IF ~f.exists THEN JArr(<<>>)
    ELSE LET r == JsonLoad(f.text)
         IN  IF r.ok THEN r.val ELSE JArr(<<>>)

\* save_festivals opening the file with mode "a"
save_festivals_Append(list, f, w) ==
    IF w THEN [raised |-> FALSE,
               file |-> [exists |-> TRUE, text |-> f.text \o JsonDump(JArr(list))]]
    ELSE [raised |-> TRUE, file |-> f]

\* save_festivals(festivals): open(.., "w") raises when the destination is
\* unwritable; otherwise the whole file is replaced by the dump
save_festivals(list, f, w) ==
    IF w THEN [raised |-> FALSE, file |-> [exists |-> TRUE, text |-> JsonDump(JArr(list))]]
    ELSE [raised |-> TRUE, file |-> f]

(***************************************************************************)
(* The calendar capability (nepali_datetime.date).  AD dates are day       *)
(* ordinals counted from the first day of the first tabulated BS year; BS  *)
(* years are indices into the table.  As in the library's table, a month   *)
(* has 29 to 32 days and its length differs from year to year.             *)
(***************************************************************************)
CalendarData ==
    << <<31, 31, 32, 31, 31, 31, 30, 29, 30, 29, 30, 30>>,
       <<31, 32, 31, 32, 31, 30, 30, 30, 29, 29, 30, 30>>,
       <<31, 32, 31, 32, 31, 30, 30, 30, 29, 30, 29, 31>>,
       <<31, 31, 32, 31, 31, 31, 30, 29, 30, 29, 30, 30>> >>

MonthsPerYear == 12

RECURSIVE SumTo(_, _)
SumTo(row, m) == IF m = 0 THEN 0 ELSE row[m] + SumTo(row, m - 1)

RECURSIVE YearStart(_)
YearStart(y) ==
    IF y = 1 THEN 0 ELSE YearStart(y - 1) + SumTo(CalendarData[y - 1], MonthsPerYear)

\* nep_date(y, m, d): ValueError unless the triple names a day of the table
ValidBS(y, m, d) ==
    /\ y \in 1..Len(CalendarData)
    /\ m \in 1..MonthsPerYear
    /\ d >= 1
    /\ d <= CalendarData[y][m]

\* nep_date(y, m, d).to_datetime_date()
bs_to_ad(y, m, d) == YearStart(y) + SumTo(CalendarData[y], m - 1) + (d - 1)

\* nep_date.today().year, for the AD date `today`
today_bs_year(today) ==
    CHOOSE y \in 1..Len(CalendarData) :
        /\ YearStart(y) <= today
        /\ today < YearStart(y) + SumTo(CalendarData[y], MonthsPerYear)

(***************************************************************************)
(* next_occurrence(festival), with date.today() = today and HAS_NEPALI =   *)
(* has.  Returns [raised, date].                                           *)
(***************************************************************************)
Raised == [raised |-> TRUE, date |-> 0]

\* festival["month"], festival["day"] and the nep_date constructor need a
\* dict holding both keys with integer values
Resolvable(festival) ==
    /\ festival.kind = "object"
    /\ HasKey(festival, KeyMonth)
    /\ HasKey(festival, KeyDay)
    /\ Get(festival, KeyMonth).kind = "int"
    /\ Get(festival, KeyDay).kind = "int"

\* next_occurrence without the roll-over to the next BS year
next_occurrence_NoRollover(festival, today, has) ==
    IF ~has THEN Raised
    ELSE IF ~Resolvable(festival) THEN Raised
    ELSE LET bs_month == Get(festival, KeyMonth).n
             bs_day == Get(festival, KeyDay).n
             current_bs_year == today_bs_year(today)
         IN  IF ~ValidBS(current_bs_year, bs_month, bs_day) THEN Raised
             ELSE [raised |-> FALSE,
                   date |-> bs_to_ad(current_bs_year, bs_month, bs_day)]

next_occurrence(festival, today, has) ==
    IF ~has THEN Raised
    ELSE IF ~Resolvable(festival) THEN Raised
    ELSE LET bs_month == Get(festival, KeyMonth).n
             bs_day == Get(festival, KeyDay).n
             current_bs_year == today_bs_year(today)
         IN  IF ~ValidBS(current_bs_year, bs_month, bs_day) THEN Raised
             ELSE LET candidate_ad == bs_to_ad(current_bs_year, bs_month, bs_day)
                  IN  IF candidate_ad < today
                      THEN IF ~ValidBS(current_bs_year + 1, bs_month, bs_day) THEN Raised
                           ELSE [raised |-> FALSE,
                                 date |-> bs_to_ad(current_bs_year + 1, bs_month, bs_day)]
                      ELSE [raised |-> FALSE, date |-> candidate_ad]

(***************************************************************************)
(* get_time_delta_str(target_dt), with datetime.now() = t.  Instants are   *)
(* ticks, SubPerSec ticks to the second (the sub-second part of a          *)
(* datetime); a timedelta is kept normalised as (days, seconds, sub).      *)
(***************************************************************************)
SubPerSec == 2

SecPerMin == 60

SecPerHour == 3600

SecPerDay == 86400

DayTicks == SecPerDay * SubPerSec

\* timedelta.days
DeltaDays(delta) == delta \div DayTicks

\* timedelta.seconds
DeltaSeconds(delta) == (delta % DayTicks) \div SubPerSec

\* format(n, "02"): at least two digits, zero-padded
Pad2(n) == IF n >= 0 /\ n < 10 THEN <<"0">> \o IntToStr(n) ELSE IntToStr(n)

AlreadyPassed ==
    <<"A", "l", "r", "e", "a", "d", "y", " ", "p", "a", "s", "s", "e", "d">>

\* get_time_delta_str testing total_seconds() <= 0
get_time_delta_str_Inclusive(target, t) ==
    LET delta == target - t
        days == DeltaDays(delta)
        hours == DeltaSeconds(delta) \div SecPerHour
        rem == DeltaSeconds(delta) % SecPerHour
        minutes == rem \div SecPerMin
        seconds == rem % SecPerMin
    IN  IF delta <= 0 THEN AlreadyPassed
        ELSE IntToStr(days) \o <<"d", " ">> \o Pad2(hours) \o <<"h", " ">>
             \o Pad2(minutes) \o <<"m", " ">> \o Pad2(seconds) \o <<"s">>

get_time_delta_str(target, t) ==
    LET delta == target - t
        days == DeltaDays(delta)
        hours == DeltaSeconds(delta) \div SecPerHour
        rem == DeltaSeconds(delta) % SecPerHour
        minutes == rem \div SecPerMin
        seconds == rem % SecPerMin
    IN  IF delta < 0 THEN AlreadyPassed
        ELSE IntToStr(days) \o <<"d", " ">> \o Pad2(hours) \o <<"h", " ">>
             \o Pad2(minutes) \o <<"m", " ">> \o Pad2(seconds) \o <<"s">>

\* datetime.combine(upcoming_ad, datetime.min.time())
Midnight(ad) == ad * DayTicks

\* date.today() at instant t
DateOf(t) == t \div DayTicks

(***************************************************************************)
(* Values of the variables a specification does not use.                   *)
(***************************************************************************)
NoFile == [exists |-> FALSE, text |-> <<>>]

TextFile(t) == [exists |-> TRUE, text |-> t]

NoCombo == [values |-> <<>>, text |-> [fest |-> FALSE, name |-> <<>>], index |-> -1]

NoInfo == [kind |-> "blank", name |-> <<>>, date |-> 0]

NoTarget == [set |-> FALSE, t |-> 0, ticked |-> FALSE]

NoArg == [target |-> 0, now |-> 0, festival |-> JObj(<<>>), today |-> 0, has |-> TRUE]

NoRet == [raised |-> FALSE, date |-> 0, text |-> <<>>, val |-> JArr(<<>>)]

AppIdle ==
    /\ combo = NoCombo
    /\ info_label = NoInfo
    /\ count_label = <<>>
    /\ target_dt = NoTarget
    /\ now = 0
    /\ notice = "none"

(***************************************************************************)
(* SpecFormat: get_time_delta_str on sampled instants.                     *)
(***************************************************************************)
MaxDeltaDays == 2

HourSamples == {0, 1, 23}

MinuteSamples == {0, 1, 59}

SecondSamples == {0, 1, 59}

Instants ==
    {((d * SecPerDay) + (h * SecPerHour) + (m * SecPerMin) + sec) * SubPerSec + u :
        d \in 0..MaxDeltaDays, h \in HourSamples, m \in MinuteSamples,
        sec \in SecondSamples, u \in 0..(SubPerSec - 1)}

InitFormat ==
    /\ AppIdle
    /\ file = NoFile
    /\ writable = TRUE
    /\ festivals = <<>>
    /\ pc = "format_call"
    /\ \E target \in Instants, t \in Instants :
          arg = [NoArg EXCEPT !.target = target, !.now = t]
    /\ ret = NoRet

FormatCall ==
    /\ pc = "format_call"
    /\ ret' = [NoRet EXCEPT !.text = get_time_delta_str(arg.target, arg.now)]
    /\ pc' = "format_done"
    /\ UNCHANGED <<file, writable, festivals, combo, info_label, count_label,
                   target_dt, now, notice, arg>>

NextFormat == FormatCall

SpecFormat == InitFormat /\ [][NextFormat]_vars

(***************************************************************************)
(* SpecResolver: next_occurrence on every (month, day, today) in range.    *)
(***************************************************************************)
MaxToday == 400

MaxMonthInput == 13

MaxDayInput == 33

InitResolver ==
    /\ AppIdle
    /\ file = NoFile
    /\ writable = TRUE
    /\ festivals = <<>>
    /\ pc = "resolve_call"
    /\ \E m \in 0..MaxMonthInput, d \in 0..MaxDayInput, today \in 0..MaxToday,
          has \in BOOLEAN :
          arg = [NoArg EXCEPT !.festival = Festival(<<"T", "i", "j">>, m, d),
                              !.today = today, !.has = has]
    /\ ret = NoRet

ResolveCall ==
    /\ pc = "resolve_call"
    /\ LET r == next_occurrence(arg.festival, arg.today, arg.has)
       IN  ret' = [NoRet EXCEPT !.raised = r.raised, !.date = r.date]
    /\ pc' = "resolve_done"
    /\ UNCHANGED <<file, writable, festivals, combo, info_label, count_label,
                   target_dt, now, notice, arg>>

NextResolver == ResolveCall

SpecResolver == InitResolver /\ [][NextResolver]_vars

(***************************************************************************)
(* SpecStore: save_festivals and load_festivals on sampled collections     *)
(* and sampled file contents.                                              *)
(***************************************************************************)
MaxLen == 2

SampleNames ==
    { <<"T", "i", "j">>, <<"a", "\"", "b">>, <<"\\", "n">>, <<"x", "\n", "y">> }

SampleMonths == {1, 12}

SampleDays == {9, 31}

SampleRecords ==
    {Festival(name, m, d) : name \in SampleNames, m \in SampleMonths, d \in SampleDays}

SeqsUpTo(S, n) == UNION {[1..k -> S] : k \in 0..n}

SampleFiles ==
    { NoFile,
      TextFile(<<>>),
      TextFile(<<"[", "]">>),
      TextFile(<<"7">>),
      TextFile(<<"{", "}">>),
      TextFile(<<"o", "o", "p", "s">>),
      TextFile(<<"[", "\n", " ", " ", "{", "\n", " ", " ", " ", " ", "\"", "n", "a",
                 "m", "e", "\"", ":", " ", "\"", "T", "i", "j", "\"", ",">>),
      TextFile(<<"[", "{", "\"", "n", "a", "m", "e", "\"", ":", " ", "\"", "T", "i",
                 "j", "\"", ",", " ", "\"", "m", "o", "n", "t", "h", "\"", ":", " ",
                 "5", "}", "]">>) }

InitStore ==
    /\ AppIdle
    /\ file \in SampleFiles
    /\ writable \in BOOLEAN
    /\ festivals \in SeqsUpTo(SampleRecords, MaxLen)
    /\ pc = "store_idle"
    /\ arg = NoArg
    /\ ret = NoRet

\* save_festivals(festivals)
StoreSave ==
    /\ LET r == save_festivals(festivals, file, writable)
       IN  /\ file' = r.file
           /\ pc' = IF r.raised THEN "save_raised" ELSE "saved"
    /\ UNCHANGED <<writable, festivals, combo, info_label, count_label,
                   target_dt, now, notice, arg, ret>>

\* load_festivals(), remembering whether it directly follows a save
StoreLoad ==
    /\ ret' = [NoRet EXCEPT !.val = load_festivals(file)]
    /\ pc' = IF pc \in {"saved", "saved_loaded"} THEN "saved_loaded" ELSE "loaded"
    /\ UNCHANGED <<file, writable, festivals, combo, info_label, count_label,
                   target_dt, now, notice, arg>>

NextStore == StoreSave \/ StoreLoad

SpecStore == InitStore /\ [][NextStore]_vars

(***************************************************************************)
(* The application (class App and the __main__ block).                     *)
(*                                                                         *)
(* combo is the ttk.Combobox: its list of values, the text it shows and    *)
(* the index last set.  A value is [fest, name]: a festival's display name *)
(* or the "(no festivals)" placeholder.  target_dt carries, beside         *)
(* App._target_dt, whether a tick has redrawn the countdown since it was   *)
(* set (ticked).  notice is what the last user action surfaced: nothing,   *)
(* a messagebox.showerror, Tk's traceback of an exception that left the    *)
(* handler, or the line printed by the __main__ block.                     *)
(***************************************************************************)
Unnamed == <<"U", "n", "n", "a", "m", "e", "d">>

Dashes == <<"-", "-", "-">>

Blank == [fest |-> FALSE, name |-> <<>>]

Placeholder ==
    [fest |-> FALSE,
     name |-> <<"(", "n", "o", " ", "f", "e", "s", "t", "i", "v", "a", "l", "s", ")">>]

\* str(value) inside an f-string
ToText(v) == IF v.kind = "int" THEN IntToStr(v.n) ELSE v.s

\* f.get('name', 'Unnamed')
DisplayName(f) == IF HasKey(f, KeyName) THEN ToText(Get(f, KeyName)) ELSE Unnamed

\* refresh_combo_values: the value list built from the festivals
ComboValues(fs) ==
    IF fs = <<>> THEN <<Placeholder>>
    ELSE [i \in 1..Len(fs) |-> [fest |-> TRUE, name |-> DisplayName(fs[i])]]

refresh_combo_values(c, fs) == [c EXCEPT !.values = ComboValues(fs)]

\* combo.current(i)
ComboSetCurrent(c, i) == [c EXCEPT !.index = i, !.text = c.values[i + 1]]

\* combo.current(): the index last set while it still names the shown text,
\* else the first value equal to the shown text, else -1
ComboCurrent(c) ==
    IF c.index >= 0 /\ c.index < Len(c.values) /\ c.values[c.index + 1] = c.text
    THEN c.index
    ELSE IF \E i \in 1..Len(c.values) : c.values[i] = c.text
         THEN (CHOOSE i \in 1..Len(c.values) :
                  /\ c.values[i] = c.text
                  /\ \A j \in 1..(i - 1) : c.values[j] # c.text) - 1
         ELSE -1

InfoNone == [kind |-> "none", name |-> <<>>, date |-> 0]

InfoError == [kind |-> "error", name |-> <<>>, date |-> 0]

\* update_display whose except branch leaves the countdown label alone
update_display_KeepCount(fs, c, count, t, has) ==
    LET idx == ComboCurrent(c)
    IN  IF idx < 0 \/ idx >= Len(fs)
        THEN [info |-> InfoNone, count |-> Dashes, target |-> NoTarget]
        ELSE LET fest == fs[idx + 1]
                 r == next_occurrence(fest, DateOf(t), has)
             IN  IF r.raised \/ ~HasKey(fest, KeyName)
                 THEN [info |-> InfoError, count |-> count, target |-> NoTarget]
                 ELSE [info |-> [kind |-> "festival",
                                 name |-> ToText(Get(fest, KeyName)),
                                 date |-> r.date],
                       count |-> count,
                       target |-> [set |-> TRUE, t |-> Midnight(r.date),
                                   ticked |-> FALSE]]

\* update_display(): the new info label, countdown label and target
update_display(fs, c, count, t, has) ==
    LET idx == ComboCurrent(c)
    IN  IF idx < 0 \/ idx >= Len(fs)
        THEN [info |-> InfoNone, count |-> Dashes, target |-> NoTarget]
        ELSE LET fest == fs[idx + 1]
                 r == next_occurrence(fest, DateOf(t), has)
             IN  IF r.raised \/ ~HasKey(fest, KeyName)
                 THEN [info |-> InfoError, count |-> Dashes, target |-> NoTarget]
                 ELSE [info |-> [kind |-> "festival",
                                 name |-> ToText(Get(fest, KeyName)),
                                 date |-> r.date],
                       count |-> count,
                       target |-> [set |-> TRUE, t |-> Midnight(r.date),
                                   ticked |-> FALSE]]

\* _ticker(): the countdown label after the tick
ticker_text(target, count, t) ==
    IF target.set THEN get_time_delta_str(target.t, t) ELSE count

Ticked(target) == IF target.set THEN [target EXCEPT !.ticked = TRUE] ELSE target

\* a delete that always drops the last element
DeleteAt_Last(fs, idx) == SubSeq(fs, 1, Len(fs) - 1)

\* del self.festivals[idx]
DeleteAt(fs, idx) ==
    [j \in 1..(Len(fs) - 1) |-> IF j <= idx THEN fs[j] ELSE fs[j + 1]]

(***************************************************************************)
(* Spec: the running application.                                          *)
(***************************************************************************)
MaxFestivals == 2

MaxDay == 1

DayOffsets == {0, DayTicks - 1}

Landmarks == {(d * DayTicks) + off : d \in 0..MaxDay, off \in DayOffsets}

NameInputs == { <<" ">> }

MonthInputs == { <<"1">>, <<"1", "3">>, <<"x">> }

DayInputs == { <<" ", "1">>, <<>> }

AppFiles ==
    { NoFile,
      TextFile(<<"[", "{", "\"", "n", "a", "m", "e", "\"", ":", " ", "\"", "T", "i",
                 "j", "\"", ",", " ", "\"", "m", "o", "n", "t", "h", "\"", ":", " ",
                 "1", "}", "]">>) }

Init ==
    /\ pc = "start"
    /\ file \in AppFiles
    /\ writable = TRUE
    /\ festivals = <<>>
    /\ combo = NoCombo
    /\ info_label = NoInfo
    /\ count_label = <<>>
    /\ target_dt = NoTarget
    /\ now \in Landmarks
    /\ notice = "none"
    /\ \E has \in BOOLEAN : arg = [NoArg EXCEPT !.has = has]
    /\ ret = NoRet

\* the __main__ block: without the calendar library print and stop; else
\* build the App (load, fill the combobox, update_display, first _ticker)
Main ==
    /\ pc = "start"
    /\ IF ~arg.has
       THEN /\ pc' = "exit"
            /\ notice' = "print"
            /\ UNCHANGED <<festivals, combo, info_label, count_label, target_dt>>
       ELSE LET fs == load_festivals(file).items
                c0 == refresh_combo_values(NoCombo, fs)
                c1 == IF fs # <<>> THEN ComboSetCurrent(c0, 0) ELSE c0
                u == update_display(fs, c1, <<>>, now, arg.has)
            IN  /\ pc' = "running"
                /\ notice' = "none"
                /\ festivals' = fs
                /\ combo' = c1
                /\ info_label' = u.info
                /\ count_label' = ticker_text(u.target, u.count, now)
                /\ target_dt' = Ticked(u.target)
    /\ UNCHANGED <<file, writable, now, arg, ret>>

\* the <<ComboboxSelected>> binding: the user picks entry i of the list
SelectFestival(i) ==
    /\ pc = "running"
    /\ i >= 0
    /\ i < Len(combo.values)
    /\ UNCHANGED <<file, writable, festivals, now, pc, arg, ret>>
    /\ notice' = "none"
    /\ LET c == ComboSetCurrent(combo, i)
           u == update_display(festivals, c, count_label, now, arg.has)
       IN  /\ combo' = c
           /\ info_label' = u.info
           /\ count_label' = u.count
           /\ target_dt' = u.target

\* save_new() of the add window, with the three entry texts
save_new(name, month, day) ==
    /\ pc = "running"
    /\ Len(festivals) < MaxFestivals
    /\ UNCHANGED <<writable, now, pc, arg, ret>>
    /\ LET m == ParseInt(month)
           d == ParseInt(day)
           stripped == Strip(name)
           fest == Festival(IF stripped = <<>> THEN Unnamed ELSE stripped, m.n, d.n)
           fs == Append(festivals, fest)
           sv == save_festivals(fs, file, writable)
           c == ComboSetCurrent(refresh_combo_values(combo, fs), Len(fs) - 1)
           u == update_display(fs, c, count_label, now, arg.has)
       IN  IF ~m.ok \/ ~d.ok
           THEN /\ notice' = "showerror"
                /\ UNCHANGED <<file, festivals, combo, info_label, count_label,
                               target_dt>>
           ELSE IF sv.raised
           THEN /\ festivals' = fs
                /\ notice' = "showerror"
                /\ UNCHANGED <<file, combo, info_label, count_label, target_dt>>
           ELSE /\ festivals' = fs
                /\ file' = sv.file
                /\ combo' = c
                /\ info_label' = u.info
                /\ count_label' = u.count
                /\ target_dt' = u.target
                /\ notice' = "none"

\* remove_selected()
remove_selected ==
    /\ pc = "running"
    /\ UNCHANGED <<writable, now, pc, arg, ret>>
    /\ LET idx == ComboCurrent(combo)
           fs == DeleteAt(festivals, idx)
           sv == save_festivals(fs, file, writable)
           c0 == refresh_combo_values(combo, fs)
           c == IF fs # <<>> THEN ComboSetCurrent(c0, 0) ELSE c0
           u == update_display(fs, c, count_label, now, arg.has)
       IN  IF ~(0 <= idx /\ idx < Len(festivals))
           THEN /\ notice' = "none"
                /\ UNCHANGED <<file, festivals, combo, info_label, count_label,
                               target_dt>>
           ELSE IF sv.raised
           THEN /\ festivals' = fs
                /\ notice' = "traceback"
                /\ UNCHANGED <<file, combo, info_label, count_label, target_dt>>
           ELSE /\ festivals' = fs
                /\ file' = sv.file
                /\ combo' = c
                /\ info_label' = u.info
                /\ count_label' = u.count
                /\ target_dt' = u.target
                /\ notice' = "none"

\* _ticker(), re-armed every second by root.after
Ticker ==
    /\ pc = "running"
    /\ count_label' = ticker_text(target_dt, count_label, now)
    /\ target_dt' = Ticked(target_dt)
    /\ UNCHANGED <<file, writable, festivals, combo, info_label, now, notice,
                   pc, arg, ret>>

\* time passes
AdvanceClock ==
    /\ \E t \in Landmarks : t > now /\ now' = t
    /\ UNCHANGED <<file, writable, festivals, combo, info_label, count_label,
                   target_dt, notice, pc, arg, ret>>

\* the destination becomes unwritable, or writable again
SetWritable ==
    /\ writable' = ~writable
    /\ UNCHANGED <<file, festivals, combo, info_label, count_label, target_dt,
                   now, notice, pc, arg, ret>>

Next ==
    \/ Main
    \/ \E i \in 0..MaxFestivals : SelectFestival(i)
    \/ \E name \in NameInputs, month \in MonthInputs, day \in DayInputs :
          save_new(name, month, day)
    \/ remove_selected
    \/ Ticker
    \/ AdvanceClock
    \/ SetWritable

Spec == Init /\ [][Next]_vars

(***************************************************************************)
(* Properties.                                                             *)
(***************************************************************************)

\* The AD dates >= today on which (m, d) falls in the BS years of `years`.
C1_Occurrences(m, d, today, years) ==
    {o \in {bs_to_ad(y, m, d) : y \in {yy \in years : ValidBS(yy, m, d)}} : o >= today}

\* C1: for a record with month in 1..12 and day in 1..31, next_occurrence
\* returns the earliest AD date >= today on which (month, day) falls in a BS
\* year >= the current one, and it does return whenever such a date exists
\* in the current BS year or the next.
C1_EarliestOccurrence ==
    (/\ pc = "resolve_done"
     /\ arg.has
     /\ Get(arg.festival, KeyMonth).n \in 1..12
     /\ Get(arg.festival, KeyDay).n \in 1..31)
    => LET m == Get(arg.festival, KeyMonth).n
           d == Get(arg.festival, KeyDay).n
           cur == today_bs_year(arg.today)
           near == C1_Occurrences(m, d, arg.today, cur..(cur + 1))
           all == C1_Occurrences(m, d, arg.today, cur..Len(CalendarData))
       IN  /\ ~ret.raised => /\ ret.date >= arg.today
                             /\ ret.date \in all
                             /\ \A o \in all : ret.date <= o
           /\ near # {} => ~ret.raised

\* The fields of a countdown text "<days>d <hh>h <mm>m <ss>s" and their widths.
C2_Read(text) ==
    LET e1 == DigitRun(text, 1)
        b2 == e1 + 2
        e2 == DigitRun(text, b2)
        b3 == e2 + 2
        e3 == DigitRun(text, b3)
        b4 == e3 + 2
        e4 == DigitRun(text, b4)
    IN  [ok |-> /\ e1 > 1 /\ At(text, e1) = "d" /\ At(text, e1 + 1) = " "
                /\ e2 = b2 + 2 /\ At(text, e2) = "h" /\ At(text, e2 + 1) = " "
                /\ e3 = b3 + 2 /\ At(text, e3) = "m" /\ At(text, e3 + 1) = " "
                /\ e4 = b4 + 2 /\ At(text, e4) = "s" /\ e4 = Len(text)
                /\ (e1 > 2 => text[1] # "0"),
         days |-> DigitsValue(SubSeq(text, 1, e1 - 1), 0),
         hours |-> DigitsValue(SubSeq(text, b2, e2 - 1), 0),
         minutes |-> DigitsValue(SubSeq(text, b3, e3 - 1), 0),
         seconds |-> DigitsValue(SubSeq(text, b4, e4 - 1), 0)]

\* C2: get_time_delta_str returns "Already passed" exactly when target - now
\* is negative; otherwise "<days>d <hh>h <mm>m <ss>s" with hh < 24, mm < 60,
\* ss < 60, two digits each, adding up to the remaining whole seconds; a zero
\* delta gives "0d 00h 00m 00s" and 90061 seconds give "1d 01h 01m 01s".
C2_Countdown ==
    pc = "format_done"
    => LET delta == arg.target - arg.now
           r == C2_Read(ret.text)
       IN  IF delta < 0 THEN ret.text = AlreadyPassed
           ELSE /\ ret.text # AlreadyPassed
                /\ r.ok
                /\ r.hours < 24 /\ r.minutes < 60 /\ r.seconds < 60
                /\ (r.days * 86400) + (r.hours * 3600) + (r.minutes * 60) + r.seconds
                      = delta \div SubPerSec
                /\ delta = 0 =>
                      ret.text = <<"0", "d", " ", "0", "0", "h", " ", "0", "0", "m",
                                   " ", "0", "0", "s">>
                /\ delta = 90061 * SubPerSec =>
                      ret.text = <<"1", "d", " ", "0", "1", "h", " ", "0", "1", "m",
                                   " ", "0", "1", "s">>

\* C2 witness: a remaining time of 90061 seconds and a fraction has been formatted.
C2_Witness ==
    /\ pc = "format_done"
    /\ (arg.target - arg.now) \div SubPerSec = 90061
    /\ (arg.target - arg.now) % SubPerSec # 0
    /\ ret.text = <<"1", "d", " ", "0", "1", "h", " ", "0", "1", "m", " ", "0", "1", "s">>

\* C3: save_festivals(X) followed by load_festivals() returns X: the same
\* records, field values and order.
C3_RoundTrip == pc = "saved_loaded" => ret.val = JArr(festivals)

\* C3 witness: two different records, one with a quote in its name, have
\* been saved and loaded back.
C3_Witness ==
    /\ pc = "saved_loaded"
    /\ Len(festivals) = 2
    /\ festivals[1] # festivals[2]
    /\ Get(festivals[1], KeyName).s = <<"a", "\"", "b">>
    /\ ret.val.items = festivals

\* What is left of fs once the element at 0-based index idx is gone.
C4_Without(fs, idx) == SubSeq(fs, 1, idx) \o SubSeq(fs, idx + 2, Len(fs))

\* The file holds exactly the collection fs.
FileHolds(f, fs) ==
    /\ f.exists
    /\ LET r == JsonLoad(f.text)
       IN  r.ok /\ r.val = JArr(fs)

C5_IsInteger(text) ==
    LET t == Strip(text)
        body == IF t # <<>> /\ Head(t) \in {"+", "-"} THEN Tail(t) ELSE t
    IN  body # <<>> /\ AllDigits(body)

\* C5: an add whose month or day text is not an integer is reported to the
\* user and changes neither the in-memory collection nor the file.
C5_RejectedAdd ==
    [][\A name \in NameInputs, month \in MonthInputs, day \in DayInputs :
          ((~C5_IsInteger(month) \/ ~C5_IsInteger(day)) /\ save_new(name, month, day))
          => /\ festivals' = festivals
             /\ file' = file
             /\ notice' = "showerror"]_vars

\* C5 witness: an error has been shown while the file still holds exactly
\* the non-empty in-memory collection (a failed save would have left the
\* file one record behind).
C5_Witness ==
    /\ pc = "running"
    /\ notice = "showerror"
    /\ festivals # <<>>
    /\ FileHolds(file, festivals)

\* C6: every record an add action appends has a non-empty name, a month in
\* 1..12 and a day in 1..31.
C6_AddedRecordRanges ==
    [][\A name \in NameInputs, month \in MonthInputs, day \in DayInputs :
          (save_new(name, month, day) /\ Len(festivals') > Len(festivals))
          => LET f == festivals'[Len(festivals')]
             IN  /\ Get(f, KeyName).kind = "str"
                 /\ Get(f, KeyName).s # <<>>
                 /\ Get(f, KeyMonth).kind = "int"
                 /\ Get(f, KeyMonth).n \in 1..12
                 /\ Get(f, KeyDay).kind = "int"
                 /\ Get(f, KeyDay).n \in 1..31]_vars

\* A festival record: a dict with a string name and integer month and day.
C7_IsRecord(v) ==
    /\ v.kind = "object"
    /\ HasKey(v, KeyName) /\ HasKey(v, KeyMonth) /\ HasKey(v, KeyDay)
    /\ Get(v, KeyName).kind = "str"
    /\ Get(v, KeyMonth).kind = "int"
    /\ Get(v, KeyDay).kind = "int"

\* The file holds a well-formed JSON array of festival records.
C7_WellFormed(f) ==
    /\ f.exists
    /\ JsonLoad(f.text).ok
    /\ JsonLoad(f.text).val.kind = "array"
    /\ \A i \in 1..Len(JsonLoad(f.text).val.items) :
          C7_IsRecord(JsonLoad(f.text).val.items[i])

\* C7: when the file is missing or does not hold a well-formed JSON array
\* of festival records, load_festivals returns an empty sequence.
C7_LoadEmptyOnMalformed ==
    (pc \in {"loaded", "saved_loaded"} /\ ~C7_WellFormed(file))
    => ret.val = JArr(<<>>)

\* C8: after every add or remove that changed the collection and whose save
\* succeeded, the file holds exactly the in-memory collection.
C8_FileIsRewritten ==
    [][(/\ festivals' # festivals
        /\ notice' = "none"
        /\ \/ \E name \in NameInputs, month \in MonthInputs, day \in DayInputs :
                 save_new(name, month, day)
           \/ remove_selected)
       => FileHolds(file', festivals')]_vars

\* C8 witness: after adds, the file holds exactly the two different records
\* in memory.
C8_Witness ==
    /\ pc = "running"
    /\ notice = "none"
    /\ Len(festivals) = 2
    /\ festivals[1] # festivals[2]
    /\ FileHolds(file, festivals)

\* C9: while the info label shows a resolution error the session runs, the
\* countdown label shows "---" and no target is set, so that no tick draws
\* a countdown over it.
C9_ErrorReplacesCountdown ==
    info_label.kind = "error"
    => /\ pc = "running"
       /\ count_label = Dashes
       /\ ~target_dt.set
       /\ ticker_text(target_dt, count_label, now) = Dashes

\* C9 witness: an error is shown for a selected festival after time has passed.
C9_Witness ==
    /\ info_label.kind = "error"
    /\ count_label = Dashes
    /\ ComboCurrent(combo) >= 0
    /\ ComboCurrent(combo) < Len(festivals)
    /\ now = Midnight(MaxDay)

\* A step in which update_display resolved the selected festival.
C10_Resolved ==
    /\ target_dt'.set
    /\ \/ Main
       \/ \E i \in 0..MaxFestivals : SelectFestival(i)
       \/ /\ festivals' # festivals
          /\ notice' = "none"
          /\ \/ \E name \in NameInputs, month \in MonthInputs, day \in DayInputs :
                   save_new(name, month, day)
             \/ remove_selected

\* A step that holds the first tick after a resolution.
C10_FirstTick ==
    \/ Main /\ target_dt'.set
    \/ Ticker /\ target_dt.set /\ ~target_dt.ticked

\* C10 as stated: the target set by a successful resolution is not earlier
\* than the instant of the resolution, and the first tick after it never
\* shows "Already passed".
C10_TargetNotPast ==
    [][/\ C10_Resolved => target_dt'.t >= now
       /\ C10_FirstTick => count_label' # AlreadyPassed]_vars

\* C10 amended: the target set by a successful resolution is midnight at the
\* start of the resolved AD date, and that date is not earlier than the
\* date of the resolution; the first tick after it shows "Already passed"
\* exactly when its instant is later than the target (as on the festival's
\* own day after midnight) and a remaining-time text otherwise.
C10_TargetNotBeforeToday ==
    [][/\ C10_Resolved => /\ target_dt'.t = Midnight(info_label'.date)
                          /\ info_label'.date >= DateOf(now)
                          /\ target_dt'.t >= Midnight(DateOf(now))
       /\ C10_FirstTick => /\ (count_label' = AlreadyPassed) <=> (now > target_dt'.t)
                           /\ (now <= target_dt'.t) => C2_Read(count_label').ok]_vars

\* C10 witness: a festival falling today was resolved after midnight and the
\* tick shows "Already passed".
C10_Witness ==
    /\ pc = "running"
    /\ target_dt.set
    /\ target_dt.ticked
    /\ target_dt.t = Midnight(DateOf(now))
    /\ now > target_dt.t
    /\ count_label = AlreadyPassed

====
